---- MODULE Spec2Model ----
(***************************************************************************)
(* A model of lumikey/piano-fingering-model: the per-note feature encoder  *)
(* (buildTokens), the per-hand predictor (predictHandFingerings), the two  *)
(* coordinators that drive it (predictFingerings of the library, and       *)
(* runPrediction of the demo), and the inference sessions they call.       *)
(*                                                                         *)
(* Conventions.                                                            *)
(*  - A JavaScript object is a record; an optional field that is missing   *)
(*    (or holds undefined / null) is a field missing from the record.      *)
(*  - Objects live in `heap`, a sequence indexed by reference, so that     *)
(*    identity, copying ({...note}) and in-place writes are distinguished. *)
(*  - Times are integer milliseconds.  The code's seconds are ms / 1000,   *)
(*    kept exact here (no floating-point rounding).                        *)
(*  - A token feature is an integer numerator over a fixed denominator     *)
(*    per column, ColScale: the code's value is numerator / ColScale[c].   *)
(*  - An async function runs from one await to the next as one action.     *)
(***************************************************************************)
EXTENDS Integers, Sequences, FiniteSets, TLC

(***************************************************************************)
(* Bounds of the model.                                                    *)
(***************************************************************************)
\* longest input list enumerated exhaustively over NoteSet
MaxNotes == 2
\* top-level calls (predictFingerings / runPrediction) made by the caller
MaxCalls == 2
\* responses of a session that are not a 5-vector (wrong length or rejection)
MaxFaults == 1
\* length of the long single-hand passage (more than 20 following notes)
LongLen == 22
\* calls of loadModels, which may overlap
MaxLoaders == 3
MaxPipelines == 2

(***************************************************************************)
(* Numbers and small helpers.                                              *)
(***************************************************************************)
\* fingerLastTime's "never used" value; larger than any time the model reaches
Infinity == 1000000000

Min(a, b) == IF a < b THEN a ELSE b
Max(a, b) == IF a > b THEN a ELSE b

\* JavaScript's remainder: the sign of the dividend
JsRem(a, n) == IF a >= 0 THEN a % n ELSE -((-a) % n)

Has(o, f) == f \in DOMAIN o

\* o.f = v on an object: adds the field or overwrites it
SetField(o, f, v) == [x \in (DOMAIN o) \cup {f} |-> IF x = f THEN v ELSE o[x]]

\* a plausible slip: the finger (1..5) used as the index in place of finger - 1
SetAtFinger(arr, idx, v) ==
    IF idx + 1 < Len(arr) THEN [arr EXCEPT ![idx + 2] = v] ELSE Append(arr, v)

\* arr[idx] = v on a JavaScript array (idx counted from 0): writing at
\* arr.length extends the array by one, and writing at a negative idx sets a
\* property that no indexed read sees.  (No reachable write is past
\* arr.length, where JavaScript would leave holes.)
SetAt(arr, idx, v) ==
    IF idx < 0 THEN arr
    ELSE IF idx < Len(arr) THEN [arr EXCEPT ![idx + 1] = v]
    ELSE Append(arr, v)

(***************************************************************************)
(* Feature helpers (inference.ts 3-15).                                    *)
(***************************************************************************)
BLACK_KEY_NOTES == {1, 4, 6, 9, 11}

\* denominators of the five feature columns: pitch offset / pitch class in
\* 1/(87*11), times in 1/(1000*10), black key in units, token type in
\* halves, finger hint in quarters
ColScale == <<87 * 11, 1000 * 10, 1, 2, 4>>

\* the code's -1.0 in column c (c counted from 0)
MinusOne(c) == -ColScale[c + 1]

\* a plausible slip: the pitch class counted from C, not from the lowest key A0
isBlackKeyFromC(midi) ==
    IF midi < 0 THEN -1
    ELSE IF JsRem(JsRem(midi, 12) + 12, 12) \in BLACK_KEY_NOTES THEN 1 ELSE 0

isBlackKey(midi) ==
    IF midi < 0 THEN -1
    ELSE LET keyIndex == midi - 21
         IN IF JsRem(JsRem(keyIndex, 12) + 12, 12) \in BLACK_KEY_NOTES THEN 1 ELSE 0

\* pitchClass / 11.0, as a numerator over 87 * 11
midiToPitchClass(midi) ==
    IF midi < 0 THEN MinusOne(0)
    ELSE LET pitchClass == JsRem(JsRem(midi - 21, 12) + 12, 12)
         IN pitchClass * 87

(***************************************************************************)
(* buildTokens (inference.ts 27-110): the flat row-major array of 26 * 5   *)
(* values, as the loops leave it.                                          *)
(***************************************************************************)
\* (midi - 21) / 87.0 - refMidiNorm, as a numerator over 87 * 11
MidiOffset(midi, currentMidi) ==
    IF midi >= 0 THEN ((midi - 21) - (currentMidi - 21)) * 11 ELSE MinusOne(0)

\* a plausible slip: the time since release is capped at 10 s and not held at 0
PreviousTokenUnclamped(c, f, currentMidi, fingerLastMidi, fingerLastTime) ==
    LET midi == fingerLastMidi[f + 1]
    IN CASE c = 0 -> MidiOffset(midi, currentMidi)
         [] c = 1 -> IF fingerLastTime[f + 1] = Infinity THEN ColScale[2]
                     ELSE Min(fingerLastTime[f + 1], 10 * 1000)
         [] c = 2 -> IF midi >= 0 THEN isBlackKey(midi) ELSE -1
         [] c = 3 -> 0
         [] OTHER -> MinusOne(4)

PreviousToken(c, f, currentMidi, fingerLastMidi, fingerLastTime) ==
    LET midi == fingerLastMidi[f + 1]
    IN CASE c = 0 -> MidiOffset(midi, currentMidi)
         [] c = 1 -> IF fingerLastTime[f + 1] = Infinity THEN ColScale[2]
                     ELSE Max(0, Min(fingerLastTime[f + 1], 10 * 1000))
         [] c = 2 -> IF midi >= 0 THEN isBlackKey(midi) ELSE -1
         [] c = 3 -> 0
         [] OTHER -> MinusOne(4)

CurrentToken(c, currentMidi) ==
    CASE c = 0 -> midiToPitchClass(currentMidi)
      [] c = 1 -> 0
      [] c = 2 -> isBlackKey(currentMidi)
      [] c = 3 -> 1
      [] OTHER -> MinusOne(4)

LookaheadToken(c, j, currentMidi, lookaheadNotes) ==
    IF j < Len(lookaheadNotes)
    THEN LET ln == lookaheadNotes[j + 1]
         IN CASE c = 0 -> MidiOffset(ln.midi, currentMidi)
              [] c = 1 -> IF ln.timeUntil < 0 THEN MinusOne(1)
                          ELSE Min(ln.timeUntil, 10 * 1000)
              [] c = 2 -> IF ln.midi >= 0 THEN isBlackKey(ln.midi) ELSE -1
              [] c = 3 -> 2
              [] OTHER -> IF Has(ln, "finger") /\ ln.finger >= 0 /\ ln.finger <= 4
                          THEN ln.finger
                          ELSE MinusOne(4)
    ELSE MinusOne(c)

\* rows 0-4 (lines 42-62), row 5 (lines 64-69), and the rows of the
\* lookahead notes (lines 75-99), each row-major
previousRows(currentMidi, fingerLastMidi, fingerLastTime) ==
    [k \in 1..(5 * 5) |->
        PreviousToken((k - 1) % 5, (k - 1) \div 5, currentMidi,
                      fingerLastMidi, fingerLastTime)]

currentRow(currentMidi) == [k \in 1..5 |-> CurrentToken(k - 1, currentMidi)]

lookaheadRows(currentMidi, lookaheadNotes) ==
    [k \in 1..(Min(20, Len(lookaheadNotes)) * 5) |->
        LookaheadToken((k - 1) % 5, (k - 1) \div 5, currentMidi, lookaheadNotes)]

\* lines 100-106: the rows past the lookahead notes, -1.0 in every column
PaddingRows == [k \in 1..(20 * 5) |-> MinusOne((k - 1) % 5)]

paddingRows(lookaheadNotes) ==
    SubSeq(PaddingRows, 1, (20 - Min(20, Len(lookaheadNotes))) * 5)

\* a plausible slip: one row per lookahead note, no padding to 26 rows
buildTokensUnpadded(currentMidi, fingerLastMidi, fingerLastTime, lookaheadNotes) ==
    previousRows(currentMidi, fingerLastMidi, fingerLastTime)
        \o currentRow(currentMidi)
        \o lookaheadRows(currentMidi, lookaheadNotes)

buildTokens(currentMidi, fingerLastMidi, fingerLastTime, lookaheadNotes) ==
    previousRows(currentMidi, fingerLastMidi, fingerLastTime)
        \o currentRow(currentMidi)
        \o lookaheadRows(currentMidi, lookaheadNotes)
        \o paddingRows(lookaheadNotes)

(***************************************************************************)
(* argmax (inference.ts 112-122).                                          *)
(***************************************************************************)
RECURSIVE argmaxLoop(_, _, _, _)
argmaxLoop(arr, i, maxIdx, maxVal) ==
    IF i >= Len(arr) THEN maxIdx
    ELSE IF arr[i + 1] > maxVal
         THEN argmaxLoop(arr, i + 1, i, arr[i + 1])
         ELSE argmaxLoop(arr, i + 1, maxIdx, maxVal)

RECURSIVE argmaxLastLoop(_, _, _, _)
argmaxLastLoop(arr, i, maxIdx, maxVal) ==
    IF i >= Len(arr) THEN maxIdx
    ELSE IF arr[i + 1] >= maxVal
         THEN argmaxLastLoop(arr, i + 1, i, arr[i + 1])
         ELSE argmaxLastLoop(arr, i + 1, maxIdx, maxVal)

\* a plausible slip: >= in the scan, so the last maximum wins
argmaxLast(arr) ==
    IF Len(arr) = 0 THEN 0 ELSE argmaxLastLoop(arr, 1, 0, arr[1])

\* on an empty array arr[0] is undefined and the loop does not run: 0
argmax(arr) ==
    IF Len(arr) = 0 THEN 0 ELSE argmaxLoop(arr, 1, 0, arr[1])

(***************************************************************************)
(* Array.prototype.sort((a, b) => a.time - b.time || a.note - b.note)      *)
(* (inference.ts 149 and 283, model-runner.ts 56).  The sort is stable     *)
(* (ECMAScript 2019): equal elements keep their order.                     *)
(***************************************************************************)
compare(a, b) == IF a.time - b.time /= 0 THEN a.time - b.time ELSE a.note - b.note

\* x put behind every element that does not compare greater than it
insertStable(h, s, x) ==
    LET after == {k \in 1..Len(s) : compare(h[s[k]], h[x]) > 0}
        p == IF after = {} THEN Len(s) + 1
             ELSE CHOOSE k \in after : \A m \in after : k <= m
    IN SubSeq(s, 1, p - 1) \o <<x>> \o SubSeq(s, p, Len(s))

RECURSIVE sortByTimeNote(_, _)
sortByTimeNote(h, arr) ==
    IF arr = <<>> THEN <<>>
    ELSE insertStable(h, sortByTimeNote(h, SubSeq(arr, 1, Len(arr) - 1)), arr[Len(arr)])

(***************************************************************************)
(* The inputs and the sessions the model enumerates.                       *)
(***************************************************************************)
\* notes a caller may pass: both hands, a white and a black key, a chord,
\* a left and a right note with the same onset and pitch, fixed fingers,
\* fingers outside 1..5, a note without duration
NoteSet ==
    { [left |-> FALSE, note |-> 60, time |-> 0, duration |-> 280],
      [left |-> FALSE, note |-> 61, time |-> 0, duration |-> 700, finger |-> 3],
      [left |-> TRUE, note |-> 60, time |-> 0, duration |-> 280],
      [left |-> FALSE, note |-> 60, time |-> 500, duration |-> 280, finger |-> 6],
      [left |-> TRUE, note |-> 48, time |-> 500, duration |-> 100, finger |-> 1],
      [left |-> TRUE, note |-> 61, time |-> 0, finger |-> 0] }

ShortInputs == UNION {[1..n -> NoteSet] : n \in 0..MaxNotes}

\* the inputs of the unit tests (chord, scrambled two-hand input, fixed
\* fingers), one with fingers outside 1..5 in place of the fixed ones, and
\* one of two notes of the same hand, onset and pitch; and a passage with a
\* rest of more than 10 s and a note held into the next
ScenarioInputs ==
    { << [left |-> FALSE, note |-> 64, time |-> 0, duration |-> 500],
         [left |-> FALSE, note |-> 60, time |-> 0, duration |-> 500],
         [left |-> FALSE, note |-> 67, time |-> 0, duration |-> 500] >>,
      << [left |-> FALSE, note |-> 72, time |-> 1000, duration |-> 500],
         [left |-> TRUE, note |-> 40, time |-> 0, duration |-> 500],
         [left |-> FALSE, note |-> 60, time |-> 0, duration |-> 500],
         [left |-> TRUE, note |-> 48, time |-> 1000, duration |-> 500] >>,
      << [left |-> FALSE, note |-> 60, time |-> 0, duration |-> 500, finger |-> 3],
         [left |-> FALSE, note |-> 62, time |-> 500, duration |-> 500],
         [left |-> FALSE, note |-> 64, time |-> 1000, duration |-> 500, finger |-> 5] >>,
      << [left |-> FALSE, note |-> 60, time |-> 0, duration |-> 500],
         [left |-> FALSE, note |-> 62, time |-> 500, duration |-> 500, finger |-> 0],
         [left |-> FALSE, note |-> 64, time |-> 1000, duration |-> 500, finger |-> 7] >>,
      << [left |-> FALSE, note |-> 60, time |-> 0, duration |-> 500, finger |-> 3],
         [left |-> FALSE, note |-> 60, time |-> 0, duration |-> 200] >>,
      << [left |-> FALSE, note |-> 60, time |-> 0, duration |-> 280, finger |-> 1],
         [left |-> FALSE, note |-> 62, time |-> 11000, duration |-> 280, finger |-> 2],
         [left |-> FALSE, note |-> 64, time |-> 11300, duration |-> 700, finger |-> 3],
         [left |-> FALSE, note |-> 65, time |-> 11500] >> }

\* a right-hand passage of LongLen notes, 600 ms apart, the second and the
\* last with a fixed finger
LongNote(k) ==
    LET base == [left |-> FALSE, note |-> 60 + ((k - 1) % 13),
                 time |-> (k - 1) * 600, duration |-> 280]
    IN IF k = 2 THEN SetField(base, "finger", 5)
       ELSE IF k = LongLen THEN SetField(base, "finger", 1)
       ELSE base

LongInputs == {[k \in 1..LongLen |-> LongNote(k)]}

\* responses of a session: two 5-vectors (a three-way tie at the maximum;
\* negative scores with the maximum last), and two vectors that are not 5 long
ScoreVectors == { <<0, 3, 3, 1, 3>>, <<-1, -2, -1, -3, 0>> }
BadVectors == { <<>>, <<0, 0, 0, 0, 0, 1>> }

Hands == BOOLEAN

\* createMockSession(fingerIndex) of the unit tests
MockSession(fingerIndex) == [kind |-> "mock", fingerIndex |-> fingerIndex]
\* an InferenceSession: some function of the request, not known in advance
FreeSession == [kind |-> "free"]

mockLogits(fingerIndex) == [k \in 1..5 |-> IF k = fingerIndex + 1 THEN 1 ELSE 0]

(***************************************************************************)
(* State.                                                                  *)
(***************************************************************************)
VARIABLES
    heap,          \* the objects: heap[ref] is a Note record
    origin,        \* history: origin[ref] is the object ref was copied from, 0 for the caller's
    given,         \* history: the caller's objects as they were passed
    notes,         \* the caller's array (references)
    session,       \* session[isLeft]: the models' two inference sessions
    calls,         \* calls[isLeft]: the tensors the session was run on, in order
    replies,       \* replies[isLeft]: what each run() settled with, in order
    faults,        \* failures so far: responses that were not a 5-vector, rejected
                   \* runs and rejected session creations
    entry,         \* the coordinator running: predictFingerings, runPrediction, none
    phase,         \* 1 or 2: the first or the second hand of the coordinator
    pc,            \* idle, await (on model.run), handDone (await on the hand's promise),
                   \* and in runPrediction's getModels: createLeft, createRight
                   \* (await on InferenceSession.create), models (await getModels())
    getModelsLeft, \* getModels' local `left` while the right session is created (0: none)
    run,           \* the model.run() promise: none, pending, resolved, rejected
    frame,         \* the locals of the running predictHandFingerings
    inputNotes,    \* the array the coordinator passes to predictHandFingerings
    leftResults,   \* the coordinator's locals
    rightResults,
    log,           \* history: the coordinator calls that ended, with what they were
                   \* passed, what they returned and the requests sent by then
    handRuns,      \* history: the predictHandFingerings calls that returned
    cachedModels,  \* inference.ts 225: null, or the cached { left, right }
    created,       \* the InferenceSession objects created so far (they are 1..created)
    loading,       \* loading[l]: the l-th call of loadModels
    runnerCachedModels,  \* model-runner.ts 14: null, or the cached { left, right }
    pipelines      \* pipelines[p]: the p-th run of the demo's pipeline (main.ts);
                   \* none before the page is loaded

\* the variables of loadModels
loadVars == <<cachedModels, created, loading>>

\* the variables of the demo page
demoVars == <<runnerCachedModels, pipelines>>

vars == <<heap, origin, given, notes, session, calls, replies, faults, entry, phase,
          pc, getModelsLeft, run, frame, inputNotes, leftResults, rightResults, log, handRuns,
          cachedModels, created, loading, runnerCachedModels, pipelines>>

\* JavaScript's null (no record is equal to it)
null == [isNull |-> TRUE]

Loaders == 1..MaxLoaders

Pipelines == 1..MaxPipelines

\* a run of the demo's pipeline that was not started: where it stands, the
\* event that started it, the notes of each hand its file holds, the models
\* getModels gave it, and the hand and note its session.run() is about
NoPipeline ==
    [at |-> "notStarted", event |-> "none", right |-> 0, left |-> 0,
     models |-> null, isLeft |-> FALSE, i |-> 0]

\* a call of loadModels that was not made yet: where it stands, the promise
\* it returned (pending, or settled with a value), the hands whose
\* InferenceSession.create is in flight, the sessions created for it so far
\* (0: none), and for the history the calls that had resolved when it started
\* and the sessions it returned as new
NotCalled ==
    [at |-> "notCalled", value |-> null, pending |-> {}, left |-> 0, right |-> 0,
     after |-> {}, made |-> 0]

NoFrame ==
    [isLeft |-> FALSE, sorted |-> <<>>, i |-> 0, fingerLastMidi |-> <<>>,
     fingerLastTime |-> <<>>, results |-> <<>>, base |-> 0]

\* nothing was called yet: the caller holds the notes of heap
NothingCalled ==
    /\ origin = [k \in 1..Len(heap) |-> 0]
    /\ given = heap
    /\ notes = [k \in 1..Len(heap) |-> k]
    /\ calls = [h \in Hands |-> <<>>]
    /\ replies = [h \in Hands |-> <<>>]
    /\ faults = 0
    /\ entry = "none"
    /\ phase = 0
    /\ pc = "idle"
    /\ getModelsLeft = 0
    /\ run = "none"
    /\ frame = NoFrame
    /\ inputNotes = <<>>
    /\ leftResults = <<>>
    /\ rightResults = <<>>
    /\ log = <<>>
    /\ handRuns = <<>>
    /\ cachedModels = null
    /\ created = 0
    /\ loading = [l \in Loaders |-> NotCalled]
    /\ runnerCachedModels = null
    /\ pipelines = <<>>

Init ==
    /\ \/ /\ heap \in ShortInputs \cup ScenarioInputs
          /\ session = [h \in Hands |-> FreeSession]
       \/ /\ heap \in LongInputs
          /\ session = [h \in Hands |-> MockSession(2)]
    /\ NothingCalled

(***************************************************************************)
(* predictHandFingerings (inference.ts 139-221), cut at its await.         *)
(***************************************************************************)
validFinger(o) == Has(o, "finger") /\ o.finger >= 1 /\ o.finger <= 5

\* a plausible slip: the filter keeps every note
handNotesAll(h, arr, isLeft) == arr

\* notes.filter((n) => n.left === isLeft)
handNotesOf(h, arr, isLeft) == SelectSeq(arr, LAMBDA r : h[r].left = isLeft)

\* a plausible slip: the fixed finger of a future note is not passed on
lookaheadOfUnhinted(h, sorted, i) ==
    LET end == Min(i + 21, Len(sorted))
        currentTime == h[sorted[i + 1]].time
    IN [j \in 1..(end - (i + 1)) |->
          [midi |-> h[sorted[i + j + 1]].note,
           timeUntil |-> h[sorted[i + j + 1]].time - currentTime]]

\* a plausible slip: the window ends one note early (i + 20 for i + 21)
lookaheadOfShort(h, sorted, i) ==
    LET end == Min(i + 20, Len(sorted))
        currentTime == h[sorted[i + 1]].time
    IN [j \in 1..(end - (i + 1)) |->
          LET futureNote == h[sorted[i + j + 1]]
              entryOf == [midi |-> futureNote.note,
                          timeUntil |-> futureNote.time - currentTime]
          IN IF validFinger(futureNote)
             THEN SetField(entryOf, "finger", futureNote.finger - 1)
             ELSE entryOf]

\* the lookahead of sorted[i]: the next 20 notes (i counted from 0)
lookaheadOf(h, sorted, i) ==
    LET end == Min(i + 21, Len(sorted))
        currentTime == h[sorted[i + 1]].time
    IN [j \in 1..(end - (i + 1)) |->
          LET futureNote == h[sorted[i + j + 1]]
              entryOf == [midi |-> futureNote.note,
                          timeUntil |-> futureNote.time - currentTime]
          IN IF validFinger(futureNote)
             THEN SetField(entryOf, "finger", futureNote.finger - 1)
             ELSE entryOf]

\* lines 183-184: new Tensor("float32", buildTokens(...), [1, 26, 5]) for
\* sorted[fr.i]
requestOf(h, fr) ==
    [data |-> buildTokens(h[fr.sorted[fr.i + 1]].note, fr.fingerLastMidi,
                          fr.fingerLastTime, lookaheadOf(h, fr.sorted, fr.i)),
     dims |-> <<1, 26, 5>>]

\* a plausible slip: the hand's notes are taken in the order they were passed
beginHandUnsorted(h, arr, isLeft, ncalls) ==
    LET handNotes == handNotesOf(h, arr, isLeft)
    IN IF Len(handNotes) = 0
       THEN [NoFrame EXCEPT !.isLeft = isLeft, !.base = ncalls]
       ELSE [isLeft |-> isLeft,
             sorted |-> handNotes,
             i |-> 0,
             fingerLastMidi |-> <<-1, -1, -1, -1, -1>>,
             fingerLastTime |-> <<Infinity, Infinity, Infinity, Infinity, Infinity>>,
             results |-> <<>>,
             base |-> ncalls]

\* a plausible slip: the fingers start as released just now, not as never used
beginHandReleased(h, arr, isLeft, ncalls) ==
    LET handNotes == handNotesOf(h, arr, isLeft)
    IN IF Len(handNotes) = 0
       THEN [NoFrame EXCEPT !.isLeft = isLeft, !.base = ncalls]
       ELSE [isLeft |-> isLeft,
             sorted |-> sortByTimeNote(h, handNotes),
             i |-> 0,
             fingerLastMidi |-> <<-1, -1, -1, -1, -1>>,
             fingerLastTime |-> <<0, 0, 0, 0, 0>>,
             results |-> <<>>,
             base |-> ncalls]

\* lines 144-155: the frame the call starts with; no sorted notes when the
\* hand is empty (the function returns [] at line 146)
beginHand(h, arr, isLeft, ncalls) ==
    LET handNotes == handNotesOf(h, arr, isLeft)
    IN IF Len(handNotes) = 0
       THEN [NoFrame EXCEPT !.isLeft = isLeft, !.base = ncalls]
       ELSE [isLeft |-> isLeft,
             sorted |-> sortByTimeNote(h, handNotes),
             i |-> 0,
             fingerLastMidi |-> <<-1, -1, -1, -1, -1>>,
             fingerLastTime |-> <<Infinity, Infinity, Infinity, Infinity, Infinity>>,
             results |-> <<>>,
             base |-> ncalls]

\* a plausible slip: result = note, the caller's object itself
aliasNote(h, org, ref) == [heap |-> h, origin |-> org, ref |-> ref]

\* const result = { ...note }: a new object with the note's own fields
spreadNote(h, org, ref) ==
    [heap |-> Append(h, h[ref]), origin |-> Append(org, ref), ref |-> Len(h) + 1]

\* a plausible slip: the never-used test is missing
ageFingersAll(fingerLastTime, dt) ==
    [f \in 1..Len(fingerLastTime) |->
        IF f <= 5 THEN fingerLastTime[f] + dt ELSE fingerLastTime[f]]

\* lines 209-217: every used finger's time grows by the gap to the next note
ageFingers(fingerLastTime, dt) ==
    [f \in 1..Len(fingerLastTime) |->
        IF f <= 5 /\ fingerLastTime[f] /= Infinity
        THEN fingerLastTime[f] + dt
        ELSE fingerLastTime[f]]

\* a plausible slip: the prediction is written whatever the note carries
resolveFingerPredicted(note, pred) == [finger |-> pred + 1, assign |-> TRUE]

\* a plausible slip: any finger the note carries is kept, in 1..5 or not
resolveFingerUnchecked(note, pred) ==
    IF Has(note, "finger")
    THEN [finger |-> note.finger, assign |-> FALSE]
    ELSE [finger |-> pred + 1, assign |-> TRUE]

\* a plausible slip: the range test is one too wide on both sides
resolveFingerWideRange(note, pred) ==
    IF Has(note, "finger") /\ note.finger >= 0 /\ note.finger <= 6
    THEN [finger |-> note.finger, assign |-> FALSE]
    ELSE [finger |-> pred + 1, assign |-> TRUE]

\* lines 191-199: the finger of the note, and whether result.finger is assigned
resolveFinger(note, pred) ==
    IF validFinger(note)
    THEN [finger |-> note.finger, assign |-> FALSE]
    ELSE [finger |-> pred + 1, assign |-> TRUE]

\* a plausible slip: the loop stops one note early
ProceedOneShort(h, fr) ==
    /\ frame' = fr
    /\ IF fr.i < Len(fr.sorted) - 1
       THEN /\ calls' = [calls EXCEPT ![fr.isLeft] = Append(@, requestOf(h, fr))]
            /\ run' = "pending"
            /\ pc' = "await"
       ELSE /\ UNCHANGED calls
            /\ run' = "none"
            /\ pc' = "handDone"

\* lines 157-185 and 220: the frame runs on to its next await: it sends the
\* request for sorted[i] when a note is left, and otherwise returns to the
\* awaiting coordinator
Proceed(h, fr) ==
    /\ frame' = fr
    /\ IF fr.i < Len(fr.sorted)
       THEN /\ calls' = [calls EXCEPT ![fr.isLeft] = Append(@, requestOf(h, fr))]
            /\ run' = "pending"
            /\ pc' = "await"
       ELSE /\ UNCHANGED calls
            /\ run' = "none"
            /\ pc' = "handDone"

(***************************************************************************)
(* The sessions: model.run({ tokens }) settles.                            *)
(***************************************************************************)
lastCall(h) == calls[h][Len(calls[h])]

\* earlier runs of the same session on the same tensor
sameBefore(h) == {k \in 1..Len(replies[h]) : calls[h][k] = lastCall(h)}

Settle(h, reply) ==
    /\ UNCHANGED <<loadVars, demoVars, getModelsLeft>>
    /\ replies' = [replies EXCEPT ![h] = Append(@, reply)]
    /\ run' = IF reply.ok THEN "resolved" ELSE "rejected"
    /\ UNCHANGED <<heap, origin, given, notes, session, calls, entry, phase, pc,
                   frame, inputNotes, leftResults, rightResults, log, handRuns>>

\* the unit tests' createMockSession: a one-hot vector
RespondMock ==
    /\ run = "pending"
    /\ session[frame.isLeft].kind = "mock"
    /\ Settle(frame.isLeft,
              [ok |-> TRUE, logits |-> mockLogits(session[frame.isLeft].fingerIndex)])
    /\ UNCHANGED faults

\* a session is a function of its input: the same tensor, the same answer
RespondAgain ==
    /\ run = "pending"
    /\ session[frame.isLeft].kind = "free"
    /\ sameBefore(frame.isLeft) /= {}
    /\ Settle(frame.isLeft,
              replies[frame.isLeft][CHOOSE k \in sameBefore(frame.isLeft) : TRUE])
    /\ UNCHANGED faults

RespondScores ==
    /\ run = "pending"
    /\ session[frame.isLeft].kind = "free"
    /\ sameBefore(frame.isLeft) = {}
    /\ \E v \in ScoreVectors : Settle(frame.isLeft, [ok |-> TRUE, logits |-> v])
    /\ UNCHANGED faults

\* logits of the wrong length
RespondBadVector ==
    /\ run = "pending"
    /\ session[frame.isLeft].kind = "free"
    /\ sameBefore(frame.isLeft) = {}
    /\ faults < MaxFaults
    /\ \E v \in BadVectors : Settle(frame.isLeft, [ok |-> TRUE, logits |-> v])
    /\ faults' = faults + 1

\* the run() promise rejects
RespondReject ==
    /\ run = "pending"
    /\ session[frame.isLeft].kind = "free"
    /\ sameBefore(frame.isLeft) = {}
    /\ faults < MaxFaults
    /\ Settle(frame.isLeft, [ok |-> FALSE, logits |-> <<>>])
    /\ faults' = faults + 1

(***************************************************************************)
(* predictHandFingerings resumes after `await model.run` (lines 186-218),  *)
(* and runs on to the next await or to its return.                         *)
(***************************************************************************)
Resume ==
    /\ UNCHANGED <<loadVars, demoVars, getModelsLeft>>
    /\ pc = "await"
    /\ run = "resolved"
    /\ LET fr == frame
           noteRef == fr.sorted[fr.i + 1]
           note == heap[noteRef]
           currentTime == note.time
           currentMidi == note.note
           logits == replies[fr.isLeft][Len(replies[fr.isLeft])].logits
           pred == argmax(logits)
           copy == spreadNote(heap, origin, noteRef)
           resolved == resolveFinger(note, pred)
           finger == resolved.finger
           heap2 == IF resolved.assign
                    THEN [copy.heap EXCEPT ![copy.ref] = SetField(@, "finger", finger)]
                    ELSE copy.heap
           fingerIdx == finger - 1
           lastMidi == SetAt(fr.fingerLastMidi, fingerIdx, currentMidi)
           durationMs == IF Has(heap2[noteRef], "duration")
                         THEN heap2[noteRef].duration ELSE 100
           lastTime == SetAt(fr.fingerLastTime, fingerIdx, -durationMs)
           aged == IF fr.i + 1 < Len(fr.sorted)
                   THEN ageFingers(lastTime,
                                   heap2[fr.sorted[fr.i + 2]].time - currentTime)
                   ELSE lastTime
       IN /\ heap' = heap2
          /\ origin' = copy.origin
          /\ Proceed(heap2, [fr EXCEPT !.i = fr.i + 1,
                                       !.fingerLastMidi = lastMidi,
                                       !.fingerLastTime = aged,
                                       !.results = Append(fr.results, copy.ref)])
    /\ UNCHANGED <<given, notes, session, replies, faults, entry, phase, inputNotes,
                   leftResults, rightResults, log, handRuns>>

(***************************************************************************)
(* The coordinators: predictFingerings (inference.ts 270-286) runs the     *)
(* left hand, then the right; runPrediction (model-runner.ts 40-59) the    *)
(* right hand, then the left.                                              *)
(***************************************************************************)
firstHand(e) == e = "predictFingerings"

\* the caller runs the two coordinators in turn on the same input, the
\* library's first, MaxCalls calls in all
MayCall(e) ==
    /\ pc = "idle"
    /\ Len(log) < MaxCalls
    /\ e = (IF Len(log) % 2 = 0 THEN "predictFingerings" ELSE "runPrediction")

\* a plausible slip: the right hand's run is started first
CallPredictFingeringsRightFirst ==
    /\ UNCHANGED <<loadVars, demoVars, getModelsLeft>>
    /\ MayCall("predictFingerings")
    /\ entry' = "predictFingerings"
    /\ phase' = 1
    /\ inputNotes' = notes
    /\ Proceed(heap, beginHand(heap, notes, FALSE, Len(calls[FALSE])))
    /\ UNCHANGED <<heap, origin, given, notes, session, replies, faults,
                   leftResults, rightResults, log, handRuns>>

CallPredictFingerings ==
    /\ UNCHANGED <<loadVars, demoVars, getModelsLeft>>
    /\ MayCall("predictFingerings")
    /\ entry' = "predictFingerings"
    /\ phase' = 1
    /\ inputNotes' = notes
    /\ Proceed(heap, beginHand(heap, notes, TRUE, Len(calls[TRUE])))
    /\ UNCHANGED <<heap, origin, given, notes, session, replies, faults,
                   leftResults, rightResults, log, handRuns>>

\* the demo's ParsedNote of a note: the pitch is called midi
parsedOf(o) ==
    [x \in ((DOMAIN o) \ {"note"}) \cup {"midi"} |-> IF x = "midi" THEN o.note ELSE o[x]]

\* model-runner.ts 43-49
inputNoteOf(n) ==
    LET fixed == [left |-> n.left, note |-> n.midi, time |-> n.time]
        timed == IF Has(n, "duration") THEN SetField(fixed, "duration", n.duration)
                 ELSE fixed
    IN IF Has(n, "finger") THEN SetField(timed, "finger", n.finger) ELSE timed

\* model-runner.ts 40-41 and 16-24: runPrediction calls getModels, which
\* returns the cache or starts to create the left session; runPrediction
\* suspends at `await getModels()` before it reads the notes
CallRunPrediction ==
    /\ MayCall("runPrediction")
    /\ entry' = "runPrediction"
    /\ pc' = IF runnerCachedModels /= null THEN "models" ELSE "createLeft"
    /\ UNCHANGED <<heap, origin, given, notes, session, calls, replies, faults, phase,
                   getModelsLeft, run, frame, inputNotes, leftResults, rightResults,
                   log, handRuns>>
    /\ UNCHANGED <<loadVars, demoVars>>

\* model-runner.ts 29-33: cachedModels = { left, right }
runnerModels(left, right) == [left |-> left, right |-> right]

\* model-runner.ts 22-27: the left session was created; the right one is next
GetModelsCreatedLeft ==
    /\ pc = "createLeft"
    /\ created' = created + 1
    /\ getModelsLeft' = created + 1
    /\ pc' = "createRight"
    /\ UNCHANGED <<heap, origin, given, notes, session, calls, replies, faults, entry,
                   phase, run, frame, inputNotes, leftResults, rightResults, log,
                   handRuns>>
    /\ UNCHANGED <<cachedModels, loading, demoVars>>

\* model-runner.ts 25-34: the right session was created: the pair is cached
\* and returned
GetModelsCreatedRight ==
    /\ pc = "createRight"
    /\ created' = created + 1
    /\ runnerCachedModels' = runnerModels(getModelsLeft, created + 1)
    /\ getModelsLeft' = 0
    /\ pc' = "models"
    /\ UNCHANGED <<heap, origin, given, notes, session, calls, replies, faults, entry,
                   phase, run, frame, inputNotes, leftResults, rightResults, log,
                   handRuns>>
    /\ UNCHANGED <<cachedModels, loading, pipelines>>

\* model-runner.ts 22-27 and 41: an InferenceSession.create rejects:
\* getModels' promise and runPrediction's reject
GetModelsFailed ==
    /\ pc \in {"createLeft", "createRight"}
    /\ faults < MaxFaults
    /\ faults' = faults + 1
    /\ log' = Append(log, [entry |-> entry, ok |-> FALSE, out |-> <<>>, fingers |-> <<>>,
                           input |-> inputNotes,
                           sent |-> [h \in Hands |-> Len(calls[h])]])
    /\ entry' = "none"
    /\ pc' = "idle"
    /\ getModelsLeft' = 0
    /\ UNCHANGED <<heap, origin, given, notes, session, calls, replies, phase,
                   run, frame, inputNotes, leftResults, rightResults, handRuns>>
    /\ UNCHANGED <<loadVars, demoVars>>

\* model-runner.ts 41-52: getModels resolved: the notes are mapped and the
\* right hand's run starts
RunPredictionResumed ==
    /\ UNCHANGED <<loadVars, demoVars, getModelsLeft>>
    /\ pc = "models"
    /\ phase' = 1
    /\ LET mapped == [k \in 1..Len(notes) |-> inputNoteOf(parsedOf(heap[notes[k]]))]
           heap2 == heap \o mapped
           arr == [k \in 1..Len(notes) |-> Len(heap) + k]
       IN /\ heap' = heap2
          /\ origin' = origin \o notes
          /\ inputNotes' = arr
          /\ Proceed(heap2, beginHand(heap2, arr, FALSE, Len(calls[FALSE])))
    /\ UNCHANGED <<given, notes, session, replies, faults, entry,
                   leftResults, rightResults, log, handRuns>>

\* what the history keeps of a predictHandFingerings call that returned
handRunOf(fr) ==
    [call |-> Len(log) + 1,
     isLeft |-> fr.isLeft,
     arr |-> inputNotes,
     sorted |-> fr.sorted,
     results |-> fr.results,
     base |-> fr.base,
     ncalls |-> Len(calls[fr.isLeft]) - fr.base]

\* the first hand returned: its results are kept and the second hand starts
StartSecondHand ==
    /\ UNCHANGED <<loadVars, demoVars, getModelsLeft>>
    /\ pc = "handDone"
    /\ phase = 1
    /\ phase' = 2
    /\ handRuns' = Append(handRuns, handRunOf(frame))
    /\ IF firstHand(entry) = TRUE
       THEN leftResults' = frame.results /\ UNCHANGED rightResults
       ELSE rightResults' = frame.results /\ UNCHANGED leftResults
    /\ LET isLeft == ~frame.isLeft
       IN Proceed(heap, beginHand(heap, inputNotes, isLeft, Len(calls[isLeft])))
    /\ UNCHANGED <<heap, origin, given, notes, session, replies, faults, entry,
                   inputNotes, log>>

\* a plausible slip: the two lists joined and returned without the sort
mergeUnsorted(h, left, right) == left \o right

\* a plausible slip: the left results joined twice
mergeLeftTwice(h, left, right) == sortByTimeNote(h, left \o left)

\* inference.ts 282-283
mergeResults(h, left, right) == sortByTimeNote(h, left \o right)

\* a plausible slip: joined in the order the hands ran
runnerMergeRunOrder(h, left, right) == sortByTimeNote(h, right \o left)

\* model-runner.ts 55-56
runnerMerge(h, left, right) == sortByTimeNote(h, left \o right)

\* the second hand returned: merge, sort, return
Return ==
    /\ UNCHANGED <<loadVars, demoVars, getModelsLeft>>
    /\ pc = "handDone"
    /\ phase = 2
    /\ LET left == IF frame.isLeft THEN frame.results ELSE leftResults
           right == IF frame.isLeft THEN rightResults ELSE frame.results
           allResults == IF entry = "predictFingerings"
                         THEN mergeResults(heap, left, right)
                         ELSE runnerMerge(heap, left, right)
       IN log' = Append(log, [entry |-> entry,
                              ok |-> TRUE,
                              out |-> allResults,
                              fingers |-> IF entry = "runPrediction"
                                          THEN [k \in 1..Len(allResults) |->
                                                  heap[allResults[k]].finger]
                                          ELSE <<>>,
                              input |-> inputNotes,
                              sent |-> [h \in Hands |-> Len(calls[h])]])
    /\ handRuns' = Append(handRuns, handRunOf(frame))
    /\ entry' = "none"
    /\ phase' = 0
    /\ pc' = "idle"
    /\ run' = "none"
    /\ frame' = NoFrame
    /\ inputNotes' = <<>>
    /\ leftResults' = <<>>
    /\ rightResults' = <<>>
    /\ UNCHANGED <<heap, origin, given, notes, session, calls, replies, faults>>

\* a plausible slip: the failure is caught and the hand returns what it has
ThrowCaught ==
    /\ pc = "await"
    /\ run = "rejected"
    /\ pc' = "handDone"
    /\ run' = "none"
    /\ UNCHANGED <<loadVars, demoVars, getModelsLeft>>
    /\ UNCHANGED <<heap, origin, given, notes, session, calls, replies, faults, entry,
                   phase, frame, inputNotes, leftResults, rightResults, log, handRuns>>

\* `await model.run` throws: the hand's promise and the coordinator's reject
Throw ==
    /\ UNCHANGED <<loadVars, demoVars, getModelsLeft>>
    /\ pc = "await"
    /\ run = "rejected"
    /\ log' = Append(log, [entry |-> entry, ok |-> FALSE, out |-> <<>>, fingers |-> <<>>,
                           input |-> inputNotes,
                           sent |-> [h \in Hands |-> Len(calls[h])]])
    /\ entry' = "none"
    /\ phase' = 0
    /\ pc' = "idle"
    /\ run' = "none"
    /\ frame' = NoFrame
    /\ inputNotes' = <<>>
    /\ leftResults' = <<>>
    /\ rightResults' = <<>>
    /\ UNCHANGED <<heap, origin, given, notes, session, calls, replies, faults, handRuns>>

Next ==
    \/ CallPredictFingerings
    \/ CallRunPrediction
    \/ GetModelsCreatedLeft
    \/ GetModelsCreatedRight
    \/ GetModelsFailed
    \/ RunPredictionResumed
    \/ RespondMock
    \/ RespondAgain
    \/ RespondScores
    \/ RespondBadVector
    \/ RespondReject
    \/ Resume
    \/ StartSecondHand
    \/ Return
    \/ Throw

Spec == Init /\ [][Next]_vars

(***************************************************************************)
(* A caller that passes its notes again in another order: a new array of   *)
(* the same objects, reversed or rotated by one.                           *)
(***************************************************************************)
Reverse(arr) == [k \in 1..Len(arr) |-> arr[Len(arr) + 1 - k]]
Rotate(arr) == [k \in 1..Len(arr) |-> arr[(k % Len(arr)) + 1]]
Rearranged(arr) == {Reverse(arr), Rotate(arr)}

CallPredictFingeringsRearranged ==
    /\ UNCHANGED <<loadVars, demoVars, getModelsLeft>>
    /\ pc = "idle"
    /\ Len(log) < MaxCalls
    /\ Len(log) % 2 = 1
    /\ entry' = "predictFingerings"
    /\ phase' = 1
    /\ \E arr \in Rearranged(notes) :
          /\ inputNotes' = arr
          /\ Proceed(heap, beginHand(heap, arr, TRUE, Len(calls[TRUE])))
    /\ UNCHANGED <<heap, origin, given, notes, session, replies, faults,
                   leftResults, rightResults, log, handRuns>>

NextRearranged ==
    \/ CallPredictFingerings
    \/ CallPredictFingeringsRearranged
    \/ RespondMock
    \/ RespondAgain
    \/ RespondScores
    \/ RespondBadVector
    \/ RespondReject
    \/ Resume
    \/ StartSecondHand
    \/ Return
    \/ Throw

SpecRearranged == Init /\ [][NextRearranged]_vars

(***************************************************************************)
(* loadModels (inference.ts 235-255), cut at its awaits.  Calls may        *)
(* overlap: a call can start while another is suspended at an await.       *)
(***************************************************************************)
predictionVars ==
    <<heap, origin, given, notes, session, calls, replies, faults, entry, phase,
      pc, getModelsLeft, run, frame, inputNotes, leftResults, rightResults, log, handRuns>>

\* the calls of loadModels whose promise has resolved
Resolved == {l \in Loaders : loading[l].at = "resolved"}

\* line 253: cachedModels = { left, right }
cacheLoaded(left, right) == [left |-> left, right |-> right]

\* lines 236-238: the call returns the cache when there is one, and otherwise
\* suspends at the first import
LoadModels(l) ==
    /\ loading[l].at = "notCalled"
    /\ \A k \in 1..(l - 1) : loading[k].at /= "notCalled"
    /\ loading' = [loading EXCEPT ![l] =
                      IF cachedModels /= null
                      THEN [NotCalled EXCEPT !.at = "resolved", !.value = cachedModels,
                                             !.after = Resolved]
                      ELSE [NotCalled EXCEPT !.at = "importFs", !.after = Resolved]]
    /\ UNCHANGED <<cachedModels, created>>
    /\ UNCHANGED <<predictionVars, demoVars>>

\* lines 238-243: an import resolves; after the second the two files are read
LoadImported(l) ==
    /\ loading[l].at \in {"importFs", "importPath"}
    /\ loading' = [loading EXCEPT ![l].at =
                      IF loading[l].at = "importFs" THEN "importPath" ELSE "readFile"]
    /\ UNCHANGED <<cachedModels, created>>
    /\ UNCHANGED <<predictionVars, demoVars>>

\* lines 243-251: both files were read; both InferenceSession.create calls
\* are made and the call suspends at their Promise.all
LoadRead(l) ==
    /\ loading[l].at = "readFile"
    /\ loading' = [loading EXCEPT ![l].at = "create", ![l].pending = Hands]
    /\ UNCHANGED <<cachedModels, created>>
    /\ UNCHANGED <<predictionVars, demoVars>>

\* lines 248-251: one InferenceSession.create resolved: a session object was
\* created, whether or not the other create has rejected the call by then
LoadSessionCreated(l, isLeft) ==
    /\ isLeft \in loading[l].pending
    /\ created' = created + 1
    /\ loading' = [loading EXCEPT
                      ![l].pending = @ \ {isLeft},
                      ![l].left = IF isLeft THEN created + 1 ELSE @,
                      ![l].right = IF isLeft THEN @ ELSE created + 1]
    /\ UNCHANGED cachedModels
    /\ UNCHANGED <<predictionVars, demoVars>>

\* lines 248-251: one InferenceSession.create rejected: Promise.all and the
\* call's promise reject; the other create goes on
LoadSessionFailed(l, isLeft) ==
    /\ isLeft \in loading[l].pending
    /\ loading' = [loading EXCEPT ![l].pending = @ \ {isLeft}, ![l].at = "rejected"]
    /\ UNCHANGED <<cachedModels, created>>
    /\ UNCHANGED <<predictionVars, demoVars>>

\* lines 248-254: both sessions were created: they are cached and returned
LoadCreated(l) ==
    /\ loading[l].at = "create"
    /\ loading[l].pending = {}
    /\ LET models == cacheLoaded(loading[l].left, loading[l].right)
       IN /\ cachedModels' = models
          /\ loading' = [loading EXCEPT ![l].at = "resolved",
                                        ![l].value = models,
                                        ![l].made = 2]
    /\ UNCHANGED created
    /\ UNCHANGED <<predictionVars, demoVars>>

\* lines 243-246: a readFile rejects: the call's promise rejects
LoadFailed(l) ==
    /\ loading[l].at = "readFile"
    /\ loading' = [loading EXCEPT ![l].at = "rejected"]
    /\ UNCHANGED <<cachedModels, created>>
    /\ UNCHANGED <<predictionVars, demoVars>>

InitLoad == Init /\ heap = <<>>

NextLoad ==
    \E l \in Loaders :
        \/ LoadModels(l)
        \/ LoadImported(l)
        \/ LoadRead(l)
        \/ \E isLeft \in Hands : LoadSessionCreated(l, isLeft)
        \/ \E isLeft \in Hands : LoadSessionFailed(l, isLeft)
        \/ LoadCreated(l)
        \/ LoadFailed(l)

SpecLoad == InitLoad /\ [][NextLoad]_vars

(***************************************************************************)
(* Views of the history used by the properties.                            *)
(***************************************************************************)
\* the caller's object a result was made from
RECURSIVE rootOf(_)
rootOf(ref) == IF origin[ref] = 0 THEN ref ELSE rootOf(origin[ref])

\* the predictFingerings calls that returned a list
Returned == {c \in 1..Len(log) : log[c].entry = "predictFingerings" /\ log[c].ok}

\* the notes a call returned, as records
OutputOf(c) == [k \in 1..Len(log[c].out) |-> heap[log[c].out[k]]]

\* the predictHandFingerings calls (all returned) made by coordinator call c
HandRunsOf(c) == {n \in 1..Len(handRuns) : handRuns[n].call = c}

\* what the session answered when the k-th note of a hand run was current
ReplyFor(hr, k) == replies[hr.isLeft][hr.base + k]
RequestFor(hr, k) == calls[hr.isLeft][hr.base + k]

\* every answer given during coordinator call c held 5 scores
FiveScores(c) ==
    \A n \in HandRunsOf(c) : \A k \in 1..handRuns[n].ncalls :
        Len(ReplyFor(handRuns[n], k).logits) = 5

\* a note without its finger field
Strip(o) == [x \in (DOMAIN o) \ {"finger"} |-> o[x]]

\* the notes of arr that belong to the hand
CountHand(arr, isLeft) == Cardinality({k \in 1..Len(arr) : heap[arr[k]].left = isLeft})

\* the smallest index (from 0) holding the maximum of the scores
FirstMax(scores) ==
    CHOOSE k \in 0..(Len(scores) - 1) :
        /\ \A m \in 1..Len(scores) : scores[m] <= scores[k + 1]
        /\ \A m \in 0..(k - 1) : scores[m + 1] < scores[k + 1]

(***************************************************************************)
(* C1  Constraint preservation: every note predictFingerings returns for   *)
(* an input note whose finger is in 1..5 carries exactly that finger,      *)
(* whatever the sessions answered.                                         *)
(***************************************************************************)
ConstraintPreserved ==
    \A c \in Returned : \A k \in 1..Len(log[c].out) :
        LET src == given[rootOf(log[c].out[k])]
            res == heap[log[c].out[k]]
        IN validFinger(src) => Has(res, "finger") /\ res.finger = src.finger

\* a fixed note came back although the session's scores favoured another finger
ConstraintOverridesScores ==
    \E c \in Returned : \E n \in HandRunsOf(c) : \E k \in 1..Len(handRuns[n].sorted) :
        LET src == given[rootOf(handRuns[n].sorted[k])]
        IN /\ validFinger(src)
           /\ argmax(ReplyFor(handRuns[n], k).logits) + 1 /= src.finger
           /\ heap[handRuns[n].results[k]].finger = src.finger

(***************************************************************************)
(* C2  Range invariant: when every answer held 5 scores, every note        *)
(* predictFingerings returns has a finger, and it is in 1..5.              *)
(***************************************************************************)
FingerInRange ==
    \A c \in Returned :
        FiveScores(c) =>
            \A k \in 1..Len(log[c].out) :
                /\ Has(OutputOf(c)[k], "finger")
                /\ OutputOf(c)[k].finger \in 1..5

\* a note passed with a finger outside 1..5 came back with one inside
OutOfRangeFingerReplaced ==
    \E c \in Returned :
        /\ FiveScores(c)
        /\ \E k \in 1..Len(log[c].out) :
              LET src == given[rootOf(log[c].out[k])]
              IN /\ Has(src, "finger")
                 /\ src.finger \notin 1..5
                 /\ OutputOf(c)[k].finger \in 1..5
        /\ \E k \in 1..Len(log[c].out) : ~Has(given[rootOf(log[c].out[k])], "finger")

(***************************************************************************)
(* C3  Sort postcondition: adjacent notes a, b of the returned list have   *)
(* a.time < b.time, or a.time = b.time and a.note <= b.note.               *)
(***************************************************************************)
OutputSorted ==
    \A c \in Returned : \A k \in 1..(Len(log[c].out) - 1) :
        LET a == OutputOf(c)[k]
            b == OutputOf(c)[k + 1]
        IN a.time < b.time \/ (a.time = b.time /\ a.note <= b.note)

\* a list of both hands came back sorted although it was passed out of order
\* and the two hands' results, joined, were out of order too
UnsortedInputSorted ==
    \E c \in Returned :
        /\ \E k \in 1..(Len(given) - 1) : compare(given[k], given[k + 1]) > 0
        /\ \E k, m \in 1..Len(log[c].out) :
              /\ OutputOf(c)[k].left
              /\ ~OutputOf(c)[m].left
              /\ compare(OutputOf(c)[k], OutputOf(c)[m]) > 0

(***************************************************************************)
(* C4  Cardinality and multiplicity: the returned list has the length of   *)
(* the input, every input note is the source of exactly one returned note, *)
(* and a returned note has its source's fields and values, the finger      *)
(* field apart, which may be added.                                        *)
(***************************************************************************)
OutputIsRearrangement ==
    \A c \in Returned :
        /\ Len(log[c].out) = Len(given)
        /\ \A r \in 1..Len(given) :
              Cardinality({k \in 1..Len(log[c].out) : rootOf(log[c].out[k]) = r}) = 1
        /\ \A k \in 1..Len(log[c].out) :
              LET src == given[rootOf(log[c].out[k])]
                  res == OutputOf(c)[k]
              IN /\ Strip(res) = Strip(src)
                 /\ DOMAIN res = (DOMAIN src) \cup {"finger"}

\* a list holding the same note twice came back with both of them
DuplicatesReturned ==
    \E c \in Returned :
        /\ \E k, m \in 1..Len(given) : k /= m /\ given[k] = given[m]
        /\ Len(log[c].out) = Len(given)
        /\ \E k, m \in 1..Len(log[c].out) :
              k /= m /\ Strip(OutputOf(c)[k]) = Strip(OutputOf(c)[m])

(***************************************************************************)
(* C5  No input mutation: the caller's array and its note objects are as   *)
(* they were passed, and every returned note is an object of its own,      *)
(* none of them the caller's.                                              *)
(***************************************************************************)
InputUntouched ==
    /\ notes = [k \in 1..Len(given) |-> k]
    /\ \A r \in 1..Len(given) : heap[r] = given[r]
    /\ \A c \in Returned :
          /\ \A k \in 1..Len(log[c].out) : log[c].out[k] > Len(given)
          /\ \A k, m \in 1..Len(log[c].out) :
                k /= m => log[c].out[k] /= log[c].out[m]

\* a note passed without finger came back with one, and still has none
FingerAddedToCopyOnly ==
    \E c \in Returned : \E k \in 1..Len(log[c].out) :
        /\ ~Has(given[rootOf(log[c].out[k])], "finger")
        /\ Has(OutputOf(c)[k], "finger")
        /\ ~Has(heap[rootOf(log[c].out[k])], "finger")

(***************************************************************************)
(* C6  Empty input: a predictHandFingerings call whose input holds no note *)
(* of its hand returns the empty list and runs the session zero times; and *)
(* predictFingerings([]) returns [] with no run of either session.         *)
(***************************************************************************)
EmptyHandNoCalls ==
    /\ \A n \in 1..Len(handRuns) :
          CountHand(handRuns[n].arr, handRuns[n].isLeft) = 0 =>
              handRuns[n].results = <<>> /\ handRuns[n].ncalls = 0
    /\ \A c \in Returned :
          Len(given) = 0 =>
              log[c].out = <<>> /\ calls[TRUE] = <<>> /\ calls[FALSE] = <<>>

\* an empty hand returned beside a hand with notes, and the empty list was run
EmptyHandBesideFullHand ==
    \/ \E n, m \in 1..Len(handRuns) :
          /\ handRuns[n].call = handRuns[m].call
          /\ CountHand(handRuns[n].arr, handRuns[n].isLeft) = 0
          /\ handRuns[m].ncalls > 0
    \/ Len(given) = 0 /\ Returned /= {}

(***************************************************************************)
(* C7  Call count: a predictHandFingerings call that returned ran its      *)
(* session once per note of its hand, fixed fingers included, in the       *)
(* processing order (by time, then pitch): the k-th request's current row  *)
(* is the k-th note's.                                                     *)
(***************************************************************************)
OneCallPerNote ==
    \A n \in 1..Len(handRuns) :
        LET hr == handRuns[n]
        IN /\ hr.ncalls = CountHand(hr.arr, hr.isLeft)
           /\ Len(hr.sorted) = hr.ncalls
           /\ \A k \in 1..(Len(hr.sorted) - 1) :
                 compare(heap[hr.sorted[k]], heap[hr.sorted[k + 1]]) <= 0
           /\ \A k \in 1..Len(hr.sorted) :
                 /\ RequestFor(hr, k).data[5 * 5 + 1] =
                        midiToPitchClass(heap[hr.sorted[k]].note)
                 /\ RequestFor(hr, k).data[5 * 5 + 3] = isBlackKey(heap[hr.sorted[k]].note)

\* a hand of several notes, one of them fixed, returned
FixedNoteWasScored ==
    \E n \in 1..Len(handRuns) :
        /\ handRuns[n].ncalls >= 2
        /\ \E k \in 1..Len(handRuns[n].sorted) : validFinger(heap[handRuns[n].sorted[k]])
        /\ \E k \in 1..Len(handRuns[n].sorted) : ~validFinger(heap[handRuns[n].sorted[k]])

(***************************************************************************)
(* C8  Shape invariant: every tensor a session is run on holds 26 * 5 =    *)
(* 130 values with dims [1, 26, 5], however many notes follow the current  *)
(* one.                                                                    *)
(***************************************************************************)
RequestShape ==
    \A h \in Hands : \A k \in 1..Len(calls[h]) :
        /\ Len(calls[h][k].data) = 26 * 5
        /\ calls[h][k].dims = <<1, 26, 5>>

\* a hand returned whose notes had more than 20, exactly 20, fewer and no
\* following notes
AllLookaheadLengths ==
    \E n \in 1..Len(handRuns) :
        /\ Len(handRuns[n].sorted) >= 22
        /\ handRuns[n].ncalls = Len(handRuns[n].sorted)

(***************************************************************************)
(* C9  Finger selection: a note without a finger in 1..5 gets finger k + 1 *)
(* where k is the smallest index holding the maximum of the 5 scores       *)
(* answered for it.                                                        *)
(***************************************************************************)
FirstMaxSelected ==
    \A n \in 1..Len(handRuns) : \A k \in 1..Len(handRuns[n].results) :
        LET hr == handRuns[n]
            scores == ReplyFor(hr, k).logits
        IN (~validFinger(heap[hr.sorted[k]]) /\ Len(scores) = 5) =>
               heap[hr.results[k]].finger = FirstMax(scores) + 1

\* the maximum was answered at several indices, and the lowest was taken
TieTakesLowest ==
    \E n \in 1..Len(handRuns) : \E k \in 1..Len(handRuns[n].results) :
        LET hr == handRuns[n]
            scores == ReplyFor(hr, k).logits
        IN /\ ~validFinger(heap[hr.sorted[k]])
           /\ Len(scores) = 5
           /\ \E a, b \in 1..5 :
                 /\ a < b
                 /\ scores[a] = scores[b]
                 /\ \A m \in 1..5 : scores[m] <= scores[a]
                 /\ heap[hr.results[k]].finger = a

(***************************************************************************)
(* C10  Hand independence: the sessions being functions of their input,    *)
(* the right-then-left coordinator (runPrediction) and the left-then-right *)
(* one (predictFingerings) end with the same merged and sorted notes.      *)
(***************************************************************************)
HandOrderIrrelevant ==
    \A c, d \in 1..Len(log) :
        (log[c].ok /\ log[d].ok /\ log[c].entry /= log[d].entry) =>
            OutputOf(c) = OutputOf(d)

\* both orders ran on a list with a left and a right note of equal onset and
\* pitch, each hand's session answering
BothOrdersRan ==
    \E c, d \in 1..Len(log) :
        /\ log[c].ok /\ log[d].ok
        /\ log[c].entry = "predictFingerings"
        /\ log[d].entry = "runPrediction"
        /\ \E k, m \in 1..Len(given) :
              /\ given[k].left /\ ~given[m].left
              /\ compare(given[k], given[m]) = 0
        /\ Len(calls[TRUE]) > 0 /\ Len(calls[FALSE]) > 0

(***************************************************************************)
(* C11  Invalid response is fatal: when a session's answer for some note   *)
(* does not hold 5 scores, predictFingerings fails to its caller: no call  *)
(* that was given such an answer returns a list.                           *)
(***************************************************************************)
InvalidResponseFatal ==
    \A c \in Returned : FiveScores(c)

\* the notes of a returned hand run that carry a finger outside 1..5
InvalidFixed(hr) ==
    {k \in 1..Len(hr.sorted) :
        Has(heap[hr.sorted[k]], "finger") /\ ~validFinger(heap[hr.sorted[k]])}

\* the value at row r, column c (both from 0) of the k-th request of a hand run
Feature(hr, k, r, c) == RequestFor(hr, k).data[r * 5 + c + 1]

(***************************************************************************)
(* C12  Invalid fixed finger treated as absent: a note whose finger is     *)
(* outside 1..5 gets the finger argmax + 1 of its answer in place of the   *)
(* invalid one, the slot of that predicted finger is what the next note's  *)
(* request shows as last used (its pitch, its release time), and in the    *)
(* lookahead rows of the earlier notes its hint is -1.                     *)
(***************************************************************************)
InvalidFingerAsAbsent ==
    \A n \in 1..Len(handRuns) : \A k \in InvalidFixed(handRuns[n]) :
        LET hr == handRuns[n]
            note == heap[hr.sorted[k]]
            pred == argmax(ReplyFor(hr, k).logits)
        IN /\ heap[hr.results[k]].finger = pred + 1
           /\ (k < Len(hr.sorted) /\ pred <= 4) =>
                 LET next == heap[hr.sorted[k + 1]]
                     held == IF Has(note, "duration") THEN note.duration ELSE 100
                 IN /\ Feature(hr, k + 1, pred, 0) = (note.note - next.note) * 11
                    /\ Feature(hr, k + 1, pred, 1) =
                           Max(0, Min(next.time - note.time - held, 10 * 1000))
           /\ \A j \in 1..(k - 1) :
                 k - j <= 20 => Feature(hr, j, 5 + (k - j), 4) = MinusOne(4)

\* a note with an invalid finger, between two notes of its hand, was returned
\* with another finger
InvalidFingerReplaced ==
    \E n \in 1..Len(handRuns) : \E k \in InvalidFixed(handRuns[n]) :
        /\ k >= 2
        /\ k < Len(handRuns[n].sorted)
        /\ heap[handRuns[n].results[k]].finger /= heap[handRuns[n].sorted[k]].finger
        /\ Feature(handRuns[n], k - 1, 6, 3) = 2

\* the array that was passed to coordinator call c
PassedTo(c) == handRuns[CHOOSE n \in HandRunsOf(c) : TRUE].arr

\* two notes of one hand share onset and pitch and differ in another field
SameHandTieDiffers ==
    \E k, m \in 1..Len(given) :
        /\ given[k].left = given[m].left
        /\ compare(given[k], given[m]) = 0
        /\ given[k] /= given[m]

(***************************************************************************)
(* C13  Input-order independence, as claimed: whatever order the caller    *)
(* passes the notes in, predictFingerings returns the same sequence of     *)
(* notes with the same fingers, notes sharing onset and pitch included.    *)
(***************************************************************************)
AnyOrderSameOutput ==
    \A c, d \in Returned : OutputOf(c) = OutputOf(d)

(***************************************************************************)
(* C13 (amended)  Input-order independence when the notes of one hand that *)
(* share onset and pitch are equal in every field: whatever order the      *)
(* caller passes the notes in, predictFingerings returns the same sequence *)
(* of notes with the same fingers.                                         *)
(***************************************************************************)
OrderIndependentUpToTies ==
    ~SameHandTieDiffers =>
        \A c, d \in Returned : OutputOf(c) = OutputOf(d)

\* the same notes were passed in two orders, a left and a right note of them
\* sharing onset and pitch, and both calls returned
TwoOrdersReturned ==
    /\ ~SameHandTieDiffers
    /\ \E c, d \in Returned :
          /\ PassedTo(c) /= PassedTo(d)
          /\ Len(log[c].out) >= 2
    /\ \E k, m \in 1..Len(given) :
          given[k].left /= given[m].left /\ compare(given[k], given[m]) = 0

(***************************************************************************)
(* C14  Model cache: a call of loadModels that starts after an earlier     *)
(* call has resolved resolves at once, with the very same left and right   *)
(* session objects as that earlier call, and creates no session.           *)
(***************************************************************************)
LaterLoadReturnsSame ==
    \A l \in Loaders : \A m \in loading[l].after :
        /\ loading[l].at = "resolved"
        /\ loading[l].value.left = loading[m].value.left
        /\ loading[l].value.right = loading[m].value.right
        /\ loading[l].made = 0

\* the requests that were sent and not answered yet
Outstanding == (Len(calls[TRUE]) - Len(replies[TRUE]))
                   + (Len(calls[FALSE]) - Len(replies[FALSE]))

\* a step that sends a request to the session of hand h
Sends(h) == Len(calls'[h]) > Len(calls[h])

\* a request is sent only when every earlier one was answered, one at a time;
\* in predictFingerings the left hand's go out while it is the first hand
\* running, the right hand's once the left hand's run has returned
SendsInTurn ==
    \A h \in Hands :
        Sends(h) =>
            /\ Outstanding = 0
            /\ Len(calls'[h]) = Len(calls[h]) + 1
            /\ calls'[~h] = calls[~h]
            /\ entry' = "predictFingerings" =>
                  IF h THEN phase' = 1
                  ELSE /\ phase' = 2
                       /\ \E n \in 1..Len(handRuns') :
                             /\ handRuns'[n].call = Len(log) + 1
                             /\ handRuns'[n].isLeft
                             /\ handRuns'[n].base + handRuns'[n].ncalls = Len(replies[TRUE])

(***************************************************************************)
(* C15  Strictly sequential use of the sessions: at most one request is    *)
(* outstanding at any moment, a request is sent only after the previous    *)
(* one was answered, and in predictFingerings every left-hand request is   *)
(* answered before the first right-hand request is sent.                   *)
(***************************************************************************)
OneRequestAtATime == [](Outstanding <= 1) /\ [][SendsInTurn]_vars

\* predictFingerings returned after requests to both hands' sessions, more
\* than one of them to one hand
BothHandsRequested ==
    \E c \in Returned : \E n, m \in HandRunsOf(c) :
        /\ handRuns[n].isLeft /\ handRuns[n].ncalls >= 1
        /\ ~handRuns[m].isLeft /\ handRuns[m].ncalls >= 1
        /\ handRuns[n].ncalls + handRuns[m].ncalls >= 3

\* the runPrediction calls that returned
Ran == {c \in 1..Len(log) : log[c].entry = "runPrediction" /\ log[c].ok}

\* a list parseMusicXML can produce (musicxml-parser.ts 145-167): sorted by
\* time, then pitch; a duration on every note; fingers only in 1..5
Parsed ==
    /\ \A k \in 1..(Len(given) - 1) : compare(given[k], given[k + 1]) <= 0
    /\ \A k \in 1..Len(given) :
          Has(given[k], "duration") /\ (Has(given[k], "finger") => validFinger(given[k]))

\* the finger the call resolved for the caller's i-th note
ResolvedFor(c, i) ==
    heap[CHOOSE r \in {log[c].out[k] : k \in 1..Len(log[c].out)} : rootOf(r) = notes[i]].finger

(***************************************************************************)
(* C16  Demo result alignment: for a list as parseMusicXML produces it,    *)
(* runPrediction returns one finger per note, the i-th being the finger    *)
(* resolved for the i-th note of the list.                                 *)
(***************************************************************************)
DemoFingersAligned ==
    \A c \in Ran :
        Parsed =>
            /\ Len(log[c].fingers) = Len(notes)
            /\ \A i \in 1..Len(notes) : log[c].fingers[i] = ResolvedFor(c, i)

\* what the history keeps of a predictFingerings call that failed
Failure == [entry |-> "predictFingerings", ok |-> FALSE, out |-> <<>>, fingers |-> <<>>]

\* how a call ended, without what it was passed and the requests sent by then
Outcome(l) == [x \in {"entry", "ok", "out", "fingers"} |-> l[x]]

\* once a request of predictFingerings is rejected, the next step ends the
\* call in failure: it sends no request and returns no notes
FailsAtOnce ==
    (run = "rejected" /\ entry = "predictFingerings") =>
        /\ calls' = calls
        /\ replies' = replies
        /\ handRuns' = handRuns
        /\ Len(log') = Len(log) + 1
        /\ SubSeq(log', 1, Len(log)) = log
        /\ Outcome(log'[Len(log')]) = Failure
        /\ pc' = "idle"
        /\ entry' = "none"

(***************************************************************************)
(* C17  A rejected request is terminal: in that predictFingerings call the *)
(* request is not sent again, no later note is scored, a failure of the    *)
(* left hand keeps the right hand from running, and predictFingerings      *)
(* fails to its caller without returning notes.                            *)
(***************************************************************************)
FailureIsTerminal == [][FailsAtOnce]_vars

\* predictFingerings failed at a left-hand note with left-hand notes still
\* to score and right-hand notes to run: nothing was asked of the right hand
LeftFailureStopsAll ==
    /\ Len(log) = 1
    /\ Outcome(log[1]) = Failure
    /\ Len(calls[TRUE]) < CountHand(notes, TRUE)
    /\ CountHand(notes, FALSE) >= 1
    /\ calls[FALSE] = <<>>
    /\ ~replies[TRUE][Len(replies[TRUE])].ok

\* the step in which predictHandFingerings takes the answer for sorted[i],
\* resolves the note's finger and updates the finger state
Resumes == pc = "await" /\ run = "resolved"

\* the time the finger of the note just processed is left with, and the time
\* a finger that was used before is left with, the next note being gap later
\* (no gap after the last note)
FingerStateStep ==
    Resumes =>
        LET k == frame.i + 1
            note == heap[frame.sorted[k]]
            finger == heap'[frame'.results[k]].finger
            gap == IF k < Len(frame.sorted)
                   THEN heap[frame.sorted[k + 1]].time - note.time
                   ELSE 0
            held == IF Has(note, "duration") THEN note.duration ELSE 100
        IN /\ frame'.i = k
           /\ finger \in DOMAIN frame'.fingerLastMidi
           /\ frame'.fingerLastMidi[finger] = note.note
           /\ frame'.fingerLastTime[finger] = (IF finger <= 5 THEN gap ELSE 0) - held
           /\ \A g \in (DOMAIN frame.fingerLastMidi) \ {finger} :
                 /\ frame'.fingerLastMidi[g] = frame.fingerLastMidi[g]
                 /\ frame'.fingerLastTime[g] =
                        IF frame.fingerLastTime[g] = Infinity \/ g > 5
                        THEN frame.fingerLastTime[g]
                        ELSE frame.fingerLastTime[g] + gap
           /\ \A g \in 1..5 :
                 frame'.fingerLastTime[g] = Infinity => frame'.fingerLastMidi[g] = -1

(***************************************************************************)
(* C18  Finger-state frame: processing a note rewrites the slot of one     *)
(* finger only, the finger resolved for the note (its last pitch becomes   *)
(* the note's); the other fingers keep their last pitch, a finger never    *)
(* used keeps (none, infinite) through every advance, and after the hand's *)
(* last note no advance is applied.                                        *)
(***************************************************************************)
FingerStateFrame == [][FingerStateStep]_vars

\* a hand of three notes or more returned: its notes went to several fingers,
\* one was released before a later onset, the last note's is still held (no
\* advance after it), and a finger was never used
FingerStateAdvanced ==
    /\ pc = "handDone"
    /\ frame.i = Len(frame.sorted)
    /\ frame.i >= 3
    /\ \E f, g, e \in 1..5 :
          /\ frame.fingerLastMidi[f] >= 0 /\ frame.fingerLastTime[f] > 0
          /\ frame.fingerLastMidi[g] >= 0 /\ frame.fingerLastTime[g] < 0
          /\ frame.fingerLastMidi[e] = -1 /\ frame.fingerLastTime[e] = Infinity

\* every answer given during the hand run held 5 scores (the oracle's contract)
ValidReplies(hr) == \A k \in 1..hr.ncalls : Len(ReplyFor(hr, k).logits) = 5

\* the pairs (j, k) of a hand run's sorted notes, j before k, of equal onset
ChordPairs(hr) ==
    {p \in (1..Len(hr.sorted)) \X (1..Len(hr.sorted)) :
        p[1] < p[2] /\ heap[hr.sorted[p[1]]].time = heap[hr.sorted[p[2]]].time}

\* the last of the notes j..k-1 that went to the finger the j-th went to
LastOnFinger(hr, j, k) ==
    CHOOSE m \in j..(k - 1) :
        /\ heap[hr.results[m]].finger = heap[hr.results[j]].finger
        /\ \A n \in (m + 1)..(k - 1) :
              heap[hr.results[n]].finger /= heap[hr.results[j]].finger

(***************************************************************************)
(* C19  Chord visibility, as claimed: notes of one hand and onset are      *)
(* encoded in ascending pitch order, and in the request of each later      *)
(* member the previous-row of the finger resolved for a lower member       *)
(* carries that member's pitch (as offset from the current pitch) with     *)
(* time feature 0.                                                         *)
(***************************************************************************)
ChordShowsLowerNote ==
    \A n \in 1..Len(handRuns) :
        ValidReplies(handRuns[n]) =>
            \A p \in ChordPairs(handRuns[n]) :
                LET hr == handRuns[n]
                    lower == heap[hr.sorted[p[1]]]
                    current == heap[hr.sorted[p[2]]]
                    f == heap[hr.results[p[1]]].finger
                IN /\ lower.note <= current.note
                   /\ Feature(hr, p[2], f - 1, 0) = (lower.note - current.note) * 11
                   /\ Feature(hr, p[2], f - 1, 1) = 0

(***************************************************************************)
(* C19 (amended)  Chord visibility: notes of one hand and onset are        *)
(* encoded in ascending pitch order, and in the request of each later      *)
(* member the previous-row of the finger resolved for a lower member has   *)
(* time feature 0 and carries the pitch (as offset from the current pitch) *)
(* of the last member before the current one that went to that finger:     *)
(* the lower member's own when no member between them took its finger.     *)
(***************************************************************************)
ChordShowsLastUse ==
    \A n \in 1..Len(handRuns) :
        ValidReplies(handRuns[n]) =>
            \A p \in ChordPairs(handRuns[n]) :
                LET hr == handRuns[n]
                    lower == heap[hr.sorted[p[1]]]
                    current == heap[hr.sorted[p[2]]]
                    f == heap[hr.results[p[1]]].finger
                    shown == heap[hr.sorted[LastOnFinger(hr, p[1], p[2])]]
                IN /\ lower.note <= current.note
                   /\ Feature(hr, p[2], f - 1, 0) = (shown.note - current.note) * 11
                   /\ Feature(hr, p[2], f - 1, 1) = 0

\* a chord of three returned whose two lower members went to one finger
ChordFingerTakenAgain ==
    \E n \in 1..Len(handRuns) :
        /\ ValidReplies(handRuns[n])
        /\ \E p \in ChordPairs(handRuns[n]) :
              /\ p[2] - p[1] = 2
              /\ LastOnFinger(handRuns[n], p[1], p[2]) = p[1] + 1
              /\ heap[handRuns[n].sorted[p[1]]].note < heap[handRuns[n].sorted[p[1] + 1]].note

\* twenty rows with -1 in each of the five columns
NoNoteRows == [x \in 1..(20 * 5) |-> MinusOne((x - 1) % 5)]

\* rows r..25 of the k-th request of a hand run
RowsFrom(hr, k, r) == SubSeq(RequestFor(hr, k).data, r * 5 + 1, 26 * 5)

(***************************************************************************)
(* C20  Lookahead window and padding, as claimed: in the request for the   *)
(* k-th of a hand's n sorted notes, with L the smaller of 20 and the       *)
(* number of notes after it, rows 6..5+L describe the next L notes in      *)
(* order (token type 1.0, time-until the note's onset minus the current    *)
(* onset), rows 6+L..25 hold -1 in all five columns, rows 0..4 have token  *)
(* type 0.0 and row 5 token type 0.5.                                      *)
(***************************************************************************)
LookaheadWindowExact ==
    \A n \in 1..Len(handRuns) : \A k \in 1..Len(handRuns[n].sorted) :
        LET hr == handRuns[n]
            current == heap[hr.sorted[k]]
            L == Min(20, Len(hr.sorted) - k)
        IN /\ \A m \in 1..L :
                 LET future == heap[hr.sorted[k + m]]
                 IN /\ Feature(hr, k, 5 + m, 3) = 2
                    /\ Feature(hr, k, 5 + m, 1) = future.time - current.time
           /\ RowsFrom(hr, k, 6 + L) = SubSeq(NoNoteRows, 1, (20 - L) * 5)
           /\ \A r \in 0..4 : Feature(hr, k, r, 3) = 0
           /\ Feature(hr, k, 5, 3) = 1

(***************************************************************************)
(* C20 (amended)  Lookahead window and padding: as claimed, the time-until *)
(* of a lookahead row being the note's onset minus the current onset or    *)
(* 10 s, whichever is less; the row also carries the note's pitch offset.  *)
(***************************************************************************)
LookaheadWindow ==
    \A n \in 1..Len(handRuns) : \A k \in 1..Len(handRuns[n].sorted) :
        LET hr == handRuns[n]
            current == heap[hr.sorted[k]]
            L == Min(20, Len(hr.sorted) - k)
        IN /\ \A m \in 1..L :
                 LET future == heap[hr.sorted[k + m]]
                 IN /\ Feature(hr, k, 5 + m, 3) = 2
                    /\ Feature(hr, k, 5 + m, 1) = Min(future.time - current.time, 10 * 1000)
                    /\ Feature(hr, k, 5 + m, 0) = (future.note - current.note) * 11
           /\ RowsFrom(hr, k, 6 + L) = SubSeq(NoNoteRows, 1, (20 - L) * 5)
           /\ \A r \in 0..4 : Feature(hr, k, r, 3) = 0
           /\ Feature(hr, k, 5, 3) = 1

\* a hand of more than 21 notes returned: its first request has all 20
\* lookahead rows taken (the last more than 10 s ahead), a later one has
\* some, its last request none
LookaheadFullAndEmpty ==
    \E n \in 1..Len(handRuns) :
        LET hr == handRuns[n]
        IN /\ Len(hr.sorted) >= 22
           /\ Feature(hr, 1, 25, 3) = 2
           /\ Feature(hr, 1, 25, 1) = 10 * 1000
           /\ heap[hr.sorted[21]].time - heap[hr.sorted[1]].time > 10 * 1000
           /\ Feature(hr, Len(hr.sorted) - 3, 8, 3) = 2
           /\ Feature(hr, Len(hr.sorted) - 3, 9, 3) = MinusOne(3)
           /\ Feature(hr, Len(hr.sorted), 6, 3) = MinusOne(3)

\* the note as the caller passed it, of which sorted[k] of a hand run is (a
\* copy of) the k-th in processing order
SuppliedNote(hr, k) == given[rootOf(hr.sorted[k])]

(***************************************************************************)
(* C21  Finger hints: the lookahead row of a future note carries the hint  *)
(* (f - 1) / 4 when the caller supplied the note with a finger f in 1..5   *)
(* and -1 otherwise; rows 0..5 carry hint -1.  A finger predicted for a    *)
(* note is never a hint.                                                   *)
(***************************************************************************)
HintsFromCallerOnly ==
    \A n \in 1..Len(handRuns) : \A k \in 1..Len(handRuns[n].sorted) :
        LET hr == handRuns[n]
        IN /\ \A m \in 1..Min(20, Len(hr.sorted) - k) :
                 Feature(hr, k, 5 + m, 4) =
                     IF validFinger(SuppliedNote(hr, k + m))
                     THEN SuppliedNote(hr, k + m).finger - 1
                     ELSE MinusOne(4)
           /\ \A r \in 0..5 : Feature(hr, k, r, 4) = MinusOne(4)

\* a request showed the fixed finger of one future note as a hint and no
\* hint for another, which was then returned with a predicted finger
HintBesidePrediction ==
    \E n \in 1..Len(handRuns) : \E k, a, b \in 1..Len(handRuns[n].sorted) :
        LET hr == handRuns[n]
        IN /\ k < a /\ k < b /\ b <= k + 20 /\ a <= k + 20
           /\ validFinger(SuppliedNote(hr, a))
           /\ Feature(hr, k, 5 + (a - k), 4) = SuppliedNote(hr, a).finger - 1
           /\ ~validFinger(SuppliedNote(hr, b))
           /\ heap[hr.results[b]].finger \in 1..5
           /\ Feature(hr, k, 5 + (b - k), 4) = MinusOne(4)


(***************************************************************************)
(* Every key of the piano: the caller passes two right-hand notes, a key   *)
(* and the key after it (the lowest after the highest).                    *)
(***************************************************************************)
LowestKey == 21
HighestKey == 108
Keys == LowestKey..HighestKey

KeyAfter(p) == IF p = HighestKey THEN LowestKey ELSE p + 1

KeyInputs ==
    { << [left |-> FALSE, note |-> p, time |-> 0, duration |-> 280],
         [left |-> FALSE, note |-> KeyAfter(p), time |-> 500, duration |-> 280] >> :
      p \in Keys }

InitKeys ==
    /\ heap \in KeyInputs
    /\ session \in {[h \in Hands |-> FreeSession], [h \in Hands |-> MockSession(2)]}
    /\ NothingCalled

SpecKeys == InitKeys /\ [][Next]_vars

\* the pitch of the k-th sorted note of a hand run
PitchAt(hr, k) == heap[hr.sorted[k]].note

\* the notes before the k-th that went to finger f (f from 0)
WentTo(hr, k, f) == {j \in 1..(k - 1) : heap[hr.results[j]].finger = f + 1}

\* the pitch row r of the k-th request describes: the one last played by
\* finger r (rows 0..4), the current one (row 5), the one of a coming note
\* (rows 6..25); -1 where there is none
PitchOfRow(hr, k, r) ==
    IF r < 5 THEN IF WentTo(hr, k, r) = {} THEN -1
                  ELSE PitchAt(hr, CHOOSE j \in WentTo(hr, k, r) :
                                       \A m \in WentTo(hr, k, r) : m <= j)
    ELSE IF k + (r - 5) <= Len(hr.sorted) THEN PitchAt(hr, k + (r - 5))
    ELSE -1

BlackFromA0 == {1, 4, 6, 9, 11}
BlackFromC == {1, 3, 6, 8, 10}

(***************************************************************************)
(* C22  Black-key feature: for every pitch in 21..108, column 2 of a row   *)
(* that describes the pitch is 1 exactly when (pitch - 21) mod 12 is one   *)
(* of 1, 4, 6, 9, 11, which is exactly when pitch mod 12 is one of 1, 3,   *)
(* 6, 8, 10, and 0 otherwise; a row that describes no pitch holds -1.      *)
(***************************************************************************)
BlackKeyFeature ==
    \A n \in 1..Len(handRuns) : \A k \in 1..handRuns[n].ncalls : \A r \in 0..25 :
        LET hr == handRuns[n]
            p == PitchOfRow(hr, k, r)
        IN IF p \in Keys
           THEN /\ ((p - 21) % 12 \in BlackFromA0) <=> (p % 12 \in BlackFromC)
                /\ Feature(hr, k, r, 2) = IF (p - 21) % 12 \in BlackFromA0 THEN 1 ELSE 0
                /\ Feature(hr, k, r, 2) = IF p % 12 \in BlackFromC THEN 1 ELSE 0
           ELSE Feature(hr, k, r, 2) = -1

\* the request for a white key shows a black key (A#0) as the last one of a
\* finger, no key for the other fingers, and before that the black key was
\* current with the white one coming
BlackThenWhite ==
    \E n \in 1..Len(handRuns) :
        LET hr == handRuns[n]
        IN /\ hr.ncalls = 2
           /\ PitchAt(hr, 1) = 22 /\ PitchAt(hr, 2) = 23
           /\ Feature(hr, 1, 5, 2) = 1 /\ Feature(hr, 1, 6, 2) = 0
           /\ Feature(hr, 2, 5, 2) = 0
           /\ \E f \in 0..4 : Feature(hr, 2, f, 2) = 1
           /\ \E f \in 0..4 : Feature(hr, 2, f, 2) = -1
           /\ Feature(hr, 2, 6, 2) = -1


(***************************************************************************)
(* A caller that passes its notes, and then one hand's notes again with    *)
(* notes of the other hand left out: a new array of the same objects.      *)
(***************************************************************************)
\* the notes of arr at the positions of keep, in order
Pick(arr, keep) ==
    LET F[k \in 0..Len(arr)] ==
            IF k = 0 THEN <<>>
            ELSE IF k \in keep THEN Append(F[k - 1], arr[k]) ELSE F[k - 1]
    IN F[Len(arr)]

\* the notes of arr that belong to the hand, in order
OfHand(h, arr, isLeft) == Pick(arr, {k \in 1..Len(arr) : h[arr[k]].left = isLeft})

\* the arrays that hold all the notes of one hand and not all of the other's
WithoutOthers(arr) ==
    {Pick(arr, keep) : keep \in
        {K \in (SUBSET (1..Len(arr))) \ {1..Len(arr)} :
            \E isLeft \in Hands : \A k \in 1..Len(arr) :
                heap[arr[k]].left = isLeft => k \in K}}

CallPredictFingeringsWithout ==
    /\ UNCHANGED <<loadVars, demoVars, getModelsLeft>>
    /\ pc = "idle"
    /\ Len(log) < MaxCalls
    /\ Len(log) % 2 = 1
    /\ entry' = "predictFingerings"
    /\ phase' = 1
    /\ \E arr \in WithoutOthers(notes) :
          /\ inputNotes' = arr
          /\ Proceed(heap, beginHand(heap, arr, TRUE, Len(calls[TRUE])))
    /\ UNCHANGED <<heap, origin, given, notes, session, replies, faults,
                   leftResults, rightResults, log, handRuns>>

NextWithout ==
    \/ CallPredictFingerings
    \/ CallPredictFingeringsWithout
    \/ RespondMock
    \/ RespondAgain
    \/ RespondScores
    \/ RespondBadVector
    \/ RespondReject
    \/ Resume
    \/ StartSecondHand
    \/ Return
    \/ Throw

\* the short inputs, and the unit tests' with their mock sessions too
InitWithout ==
    /\ \/ /\ heap \in ShortInputs \cup ScenarioInputs
          /\ session = [h \in Hands |-> FreeSession]
       \/ /\ heap \in ScenarioInputs
          /\ session = [h \in Hands |-> MockSession(2)]
    /\ NothingCalled

SpecWithout == InitWithout /\ [][NextWithout]_vars

\* the coordinator calls that ended
Ended == 1..Len(log)

\* the requests sent to a hand's session during coordinator call c
SentIn(c, isLeft) ==
    SubSeq(calls[isLeft],
           (IF c = 1 THEN 0 ELSE log[c - 1].sent[isLeft]) + 1,
           log[c].sent[isLeft])

\* the fingers of a hand's notes in what call c returned, in order
FingersOut(c, isLeft) ==
    LET out == OfHand(heap, log[c].out, isLeft)
    IN [k \in 1..Len(out) |-> heap[out[k]].finger]

\* calls c and d were passed the same notes of the hand
SameHandNotes(c, d, isLeft) ==
    OfHand(heap, log[c].input, isLeft) = OfHand(heap, log[d].input, isLeft)

\* the notes a hand's session was asked about all belong to the hand
OwnNotesOnly ==
    \A n \in 1..Len(handRuns) : \A k \in 1..Len(handRuns[n].sorted) :
        heap[handRuns[n].sorted[k]].left = handRuns[n].isLeft


\* the hand's run of coordinator call c returned
HandReturned(c, isLeft) ==
    \E n \in 1..Len(handRuns) : handRuns[n].call = c /\ handRuns[n].isLeft = isLeft

\* lines 279-280: coordinator call c called predictHandFingerings for the
\* hand: for the left hand always, for the right hand once the left hand's
\* run has returned
HandCalled(c, isLeft) == isLeft \/ HandReturned(c, TRUE)

HeldFor(note) == IF Has(note, "duration") THEN note.duration ELSE 100

\* the latest of the notes before the k-th that went to finger f (f from 0)
LatestOn(fr, k, f) == CHOOSE j \in WentTo(fr, k, f) : \A m \in WentTo(fr, k, f) : m <= j

\* the request the running predictHandFingerings is waiting on
PendingRequest == calls[frame.isLeft][Len(calls[frame.isLeft])]

(***************************************************************************)
(* C24  Time-since-release closed form: while the request for the i-th     *)
(* note of a hand is out, the tracked time of each finger that was used is *)
(* onset_i - onset_j - duration_j (ms), j the latest earlier note of the   *)
(* hand resolved to the finger, and the request's row of the finger holds  *)
(* that time clamped to 0..10 s over 10 s: 0 for a finger still sounding;  *)
(* a finger never used holds 1.                                            *)
(***************************************************************************)
TimeSinceRelease ==
    pc = "await" =>
        LET k == frame.i + 1
        IN \A f \in 0..4 :
              IF WentTo(frame, k, f) = {}
              THEN /\ frame.fingerLastTime[f + 1] = Infinity
                   /\ PendingRequest.data[f * 5 + 2] = ColScale[2]
              ELSE LET last == heap[frame.sorted[LatestOn(frame, k, f)]]
                       t == heap[frame.sorted[k]].time - last.time - HeldFor(last)
                   IN /\ frame.fingerLastTime[f + 1] = t
                      /\ PendingRequest.data[f * 5 + 2] =
                              (IF t < 0 THEN 0 ELSE IF t > 10000 THEN 10000 ELSE t)
                      /\ t < 0 => PendingRequest.data[f * 5 + 2] = 0

\* a request is out that shows a finger released more than 10 s ago as 1.0,
\* one released 220 ms ago, one still sounding as 0 and two never used as 1.0
ReleasedHeldAndUnused ==
    /\ pc = "await"
    /\ frame.i = 3
    /\ frame.fingerLastTime = <<11220, 220, -500, Infinity, Infinity>>
    /\ [f \in 1..5 |-> PendingRequest.data[(f - 1) * 5 + 2]] =
           <<10000, 220, 0, 10000, 10000>>


\* a predictHandFingerings call is running and has its finger state (an
\* empty hand returns at line 146, before it is created)
HandRunning == pc \in {"await", "handDone"} /\ frame.sorted /= <<>>

\* the fingers (1..5) whose last pitch is a real one
FingersUsed == {f \in 1..5 : frame.fingerLastMidi[f] /= -1}

(***************************************************************************)
(* C25  Finger-state pairing: at every point of a hand's run, for each of  *)
(* the 5 fingers the last pitch is -1 if and only if the time is the       *)
(* infinite sentinel, and the fingers with a real pitch are no more than   *)
(* the notes processed so far.                                             *)
(***************************************************************************)
FingerStatePaired ==
    HandRunning =>
        /\ \A f \in 1..5 :
              (frame.fingerLastMidi[f] = -1) <=> (frame.fingerLastTime[f] = Infinity)
        /\ Cardinality(FingersUsed) <= frame.i

\* two notes were processed and both went to the same finger: one finger
\* holds a pitch and a time, the other four hold both sentinels
OneFingerTwice ==
    /\ HandRunning
    /\ frame.i = 2
    /\ Cardinality(FingersUsed) = 1
    /\ \A f \in (1..5) \ FingersUsed :
          frame.fingerLastMidi[f] = -1 /\ frame.fingerLastTime[f] = Infinity
    /\ \A f \in FingersUsed : frame.fingerLastTime[f] < Infinity


(***************************************************************************)
(* A caller that passes to predictFingerings the list a first call         *)
(* returned.                                                               *)
(***************************************************************************)
CallPredictFingeringsFedBack ==
    /\ UNCHANGED <<loadVars, demoVars, getModelsLeft>>
    /\ pc = "idle"
    /\ Len(log) = 1
    /\ Len(log) < MaxCalls
    /\ log[1].ok
    /\ entry' = "predictFingerings"
    /\ phase' = 1
    /\ inputNotes' = log[1].out
    /\ Proceed(heap, beginHand(heap, log[1].out, TRUE, Len(calls[TRUE])))
    /\ UNCHANGED <<heap, origin, given, notes, session, replies, faults,
                   leftResults, rightResults, log, handRuns>>

NextFedBack ==
    \/ CallPredictFingerings
    \/ CallPredictFingeringsFedBack
    \/ RespondMock
    \/ RespondAgain
    \/ RespondScores
    \/ RespondBadVector
    \/ RespondReject
    \/ Resume
    \/ StartSecondHand
    \/ Return
    \/ Throw

SpecFedBack == Init /\ [][NextFedBack]_vars

(***************************************************************************)
(* C26  Idempotence: a call that is passed what a first call returned      *)
(* returns the same sequence of notes with the same fingers, whatever the  *)
(* sessions answer the second time.                                        *)
(***************************************************************************)
Idempotent ==
    (Len(log) = 2 /\ log[1].ok /\ log[2].ok /\ log[2].input = log[1].out) =>
        OutputOf(2) = OutputOf(1)


(***************************************************************************)
(* C27  Single model creation under overlap: however the calls of          *)
(* loadModels interleave, the sessions created are at most one pair, and   *)
(* all the calls that resolved returned the same pair.                     *)
(***************************************************************************)
OnePairCreated ==
    /\ Cardinality({l \in Loaders : loading[l].made = 2}) <= 1
    /\ \A l, m \in Resolved :
          /\ loading[l].value.left = loading[m].value.left
          /\ loading[l].value.right = loading[m].value.right


(***************************************************************************)
(* The demo page (main.ts, model-runner.ts): the start-up load of the      *)
(* default file and the user's drops and selections each start a run of    *)
(* the pipeline; no handler waits for a run that is under way.  Each run   *)
(* is cut at its awaits.  Only the number of notes of each hand matters    *)
(* here: one session.run() per note, the right hand's first.               *)
(***************************************************************************)
\* the parsed files: no note, a note for each hand, two right-hand notes, a
\* left-hand note
DemoFiles ==
    { [right |-> 0, left |-> 0], [right |-> 1, left |-> 1], [right |-> 2, left |-> 0],
      [right |-> 0, left |-> 1] }

UserEvents == {"drop", "change"}

\* main.ts 244: loadDefaultFile() is called as the page loads and suspends
\* at the fetch
StartUp ==
    /\ pipelines = <<>>
    /\ pipelines' = [p \in Pipelines |->
                        IF p = 1 THEN [NoPipeline EXCEPT !.at = "fetch", !.event = "startup"]
                        ELSE NoPipeline]
    /\ UNCHANGED <<runnerCachedModels, loadVars, predictionVars>>

\* main.ts 215-222 and 232-238: a file is dropped or selected: processFile
\* is called (and not awaited) and suspends at getXmlString
UserEvent(p, e) ==
    /\ p > 1
    /\ pipelines[p].at = "notStarted"
    /\ pipelines[p - 1].at /= "notStarted"
    /\ pipelines' = [pipelines EXCEPT ![p].at = "getXml", ![p].event = e]
    /\ UNCHANGED <<runnerCachedModels, loadVars, predictionVars>>

\* main.ts 177-180: the fetch resolved; without a default file the load ends
Fetched(p) ==
    /\ pipelines[p].at = "fetch"
    /\ \E ok \in BOOLEAN :
          pipelines' = [pipelines EXCEPT ![p].at = IF ok THEN "text" ELSE "done"]
    /\ UNCHANGED <<runnerCachedModels, loadVars, predictionVars>>

\* main.ts 164-166, 180-181 and 111-119: the text is there; processXmlString
\* suspends at osmd.load
GotXml(p) ==
    /\ pipelines[p].at \in {"getXml", "text"}
    /\ pipelines' = [pipelines EXCEPT ![p].at = "render"]
    /\ UNCHANGED <<runnerCachedModels, loadVars, predictionVars>>

\* model-runner.ts 16-24: getModels returns the cache or starts to create
\* the left session
getModels(pl) ==
    IF runnerCachedModels /= null
    THEN [pl EXCEPT !.at = "models", !.models = runnerCachedModels]
    ELSE [pl EXCEPT !.at = "createLeft"]

\* main.ts 120-140: the sheet is rendered and the text parsed: a parse error
\* throws, a file without notes ends the run, and otherwise runPrediction
\* calls getModels
Rendered(p) ==
    /\ pipelines[p].at = "render"
    /\ \/ pipelines' = [pipelines EXCEPT ![p].at = "failed"]
       \/ \E file \in DemoFiles :
             pipelines' = [pipelines EXCEPT ![p] =
                  IF file.right + file.left = 0 THEN [@ EXCEPT !.at = "done"]
                  ELSE getModels([@ EXCEPT !.right = file.right, !.left = file.left])]
    /\ UNCHANGED <<runnerCachedModels, loadVars, predictionVars>>

\* model-runner.ts 22-27: the left session was created; the right one is next
CreatedLeft(p) ==
    /\ pipelines[p].at = "createLeft"
    /\ created' = created + 1
    /\ pipelines' = [pipelines EXCEPT ![p].at = "createRight",
                                      ![p].models = [left |-> created + 1]]
    /\ UNCHANGED <<runnerCachedModels, cachedModels, loading, predictionVars>>

\* model-runner.ts 25-34: the right session was created: the pair is cached
\* and returned
CreatedRight(p) ==
    /\ pipelines[p].at = "createRight"
    /\ created' = created + 1
    /\ LET models == runnerModels(pipelines[p].models.left, created + 1)
       IN /\ runnerCachedModels' = models
          /\ pipelines' = [pipelines EXCEPT ![p].at = "models", ![p].models = models]
    /\ UNCHANGED <<cachedModels, loading, predictionVars>>

\* inference.ts 139-147 and 185-190: predictHandFingerings is called for a
\* hand: its first session.run() is in flight, or, for a hand without notes,
\* it has returned and runPrediction waits for its promise
startHand(pl, isLeft) ==
    IF (IF isLeft THEN pl.left ELSE pl.right) > 0
    THEN [pl EXCEPT !.at = "run", !.isLeft = isLeft, !.i = 0]
    ELSE [pl EXCEPT !.at = "handDone", !.isLeft = isLeft]

\* model-runner.ts 41-52: getModels resolved: the right hand's run starts
ModelsReady(p) ==
    /\ pipelines[p].at = "models"
    /\ pipelines' = [pipelines EXCEPT ![p] = startHand(@, FALSE)]
    /\ UNCHANGED <<runnerCachedModels, loadVars, predictionVars>>

\* inference.ts 185-220: a session.run() resolved: the hand's next note is
\* sent, or the hand returns and runPrediction waits for its promise
RunResolved(p) ==
    /\ pipelines[p].at = "run"
    /\ LET pl == pipelines[p]
           n == IF pl.isLeft THEN pl.left ELSE pl.right
       IN pipelines' = [pipelines EXCEPT ![p] =
              IF pl.i + 1 < n THEN [pl EXCEPT !.i = pl.i + 1]
              ELSE [pl EXCEPT !.at = "handDone"]]
    /\ UNCHANGED <<runnerCachedModels, loadVars, predictionVars>>

\* model-runner.ts 52-58, main.ts 140-149: runPrediction resumes with a
\* hand's results: after the right hand the left hand's run starts, after the
\* left hand the fingerings are injected and the sheet is loaded again
HandAwaited(p) ==
    /\ pipelines[p].at = "handDone"
    /\ pipelines' = [pipelines EXCEPT ![p] =
           IF @.isLeft THEN [@ EXCEPT !.at = "rerender"] ELSE startHand(@, TRUE)]
    /\ UNCHANGED <<runnerCachedModels, loadVars, predictionVars>>

\* main.ts 150-160: rendered with the fingerings: the run is done
Rerendered(p) ==
    /\ pipelines[p].at = "rerender"
    /\ pipelines' = [pipelines EXCEPT ![p].at = "done"]
    /\ UNCHANGED <<runnerCachedModels, loadVars, predictionVars>>

\* main.ts 167-173 and 183-185: an awaited promise rejected: the error is
\* caught and shown, and the run ends
Caught(p) ==
    /\ pipelines[p].at \in {"fetch", "text", "getXml", "render", "createLeft",
                            "createRight", "run", "rerender"}
    /\ pipelines' = [pipelines EXCEPT ![p].at = "failed"]
    /\ UNCHANGED <<runnerCachedModels, loadVars, predictionVars>>

NextDemo ==
    \/ StartUp
    \/ \E p \in DOMAIN pipelines :
          \/ \E e \in UserEvents : UserEvent(p, e)
          \/ Fetched(p)
          \/ GotXml(p)
          \/ Rendered(p)
          \/ CreatedLeft(p)
          \/ CreatedRight(p)
          \/ ModelsReady(p)
          \/ RunResolved(p)
          \/ HandAwaited(p)
          \/ Rerendered(p)
          \/ Caught(p)

SpecDemo == InitLoad /\ [][NextDemo]_vars

\* the session.run() calls in flight
RunsInFlight == {p \in DOMAIN pipelines : pipelines[p].at = "run"}

(***************************************************************************)
(* C28  Demo, no concurrent session.run(): whatever the user's drops and   *)
(* selections and the start-up load, at most one session.run() call on     *)
(* the demo's sessions is in flight at any moment.                         *)
(***************************************************************************)
OneRunInFlight == Cardinality(RunsInFlight) <= 1

====
